---- MODULE Spec2Model ----
(***************************************************************************)
(* Model of the per-policy CPU frequency controller                        *)
(* src/src/cpu_common/cpu_info.rs (struct Info): construction from a        *)
(* cpufreq policy directory, write_freq, verify_freq, reset.                *)
(*                                                                         *)
(* Strings are sequences of one-character strings, Option<T> is <<>> (None) *)
(* or <<v>> (Some(v)).  A file is an Option of its content; the two list    *)
(* files are kept as the sequence of tokens split_whitespace yields.        *)
(***************************************************************************)
EXTENDS Integers, Sequences, FiniteSets

None == <<>>
Some(v) == <<v>>
IsSome(o) == o /= <<>>
Unwrap(o) == o[1]

(***************************************************************************)
(* Bounds of the model and constants of the program.                       *)
(***************************************************************************)
\* the monotonic clock (seconds) stops advancing here
MaxClock == 6
\* the longest frequency table the acceptance band is computed on
MaxBandLen == 3
\* Duration::from_secs(3) of the verification debounce window
VerifyWindow == 3
\* capacity of nix::sched::CpuSet: is_set(core) fails for core >= CPU_SETSIZE
CPU_SETSIZE == 1024

\* i32::MAX and i32::MIN
I32_MAX == 2147483647
I32_MIN == (-I32_MAX) - 1

(***************************************************************************)
(* str::parse::<integer> and ToString for integers.                         *)
(***************************************************************************)
Digits == <<"0", "1", "2", "3", "4", "5", "6", "7", "8", "9">>

IsDigit(c) == \E i \in 1..10 : Digits[i] = c

DigitVal(c) == (CHOOSE i \in 1..10 : Digits[i] = c) - 1

RECURSIVE ParseDigits(_, _, _, _, _)
\* accumulate the digits of s from left to right (checked_mul, then
\* checked_add or checked_sub when neg); fail (None) on a non-digit or when
\* the value would leave [lo, hi]
ParseDigits(s, acc, neg, lo, hi) ==
    IF s = <<>> THEN Some(acc)
    ELSE IF ~IsDigit(Head(s)) THEN None
    ELSE LET d == DigitVal(Head(s))
         IN IF neg
            THEN IF acc < (lo + d + 9) \div 10 THEN None
                 ELSE ParseDigits(Tail(s), acc * 10 - d, neg, lo, hi)
            ELSE IF acc > (hi - d) \div 10 THEN None
                 ELSE ParseDigits(Tail(s), acc * 10 + d, neg, lo, hi)

\* <iN|uN as FromStr>::from_str: an optional sign ("-" only for a signed
\* type), then at least one digit
ParseInt(s, signed, lo, hi) ==
    IF s = <<>> THEN None
    ELSE IF Head(s) = "+" \/ (signed /\ Head(s) = "-")
         THEN IF Len(s) = 1 THEN None
              ELSE ParseDigits(Tail(s), 0, Head(s) = "-", lo, hi)
         ELSE ParseDigits(s, 0, FALSE, lo, hi)

ParseI32(s) == ParseInt(s, TRUE, I32_MIN, I32_MAX)
\* isize and usize are 64 bits wide; TLC's integers are 32 bits wide, so the
\* range check is made at that width (every token of the model is shorter
\* than ten digits, where the two widths agree)
ParseIsize(s) == ParseInt(s, TRUE, I32_MIN, I32_MAX)
ParseUsize(s) == ParseInt(s, FALSE, 0, I32_MAX)

RECURSIVE NatToString(_)
NatToString(n) ==
    IF n < 10 THEN <<Digits[n + 1]>>
    ELSE Append(NatToString(n \div 10), Digits[(n % 10) + 1])

\* isize::to_string
to_string(n) == IF n < 0 THEN <<"-">> \o NatToString(-n) ELSE NatToString(n)

IsWhitespace(c) == c \in {" ", "\n", "\t"}

RECURSIVE TrimStart(_)
TrimStart(s) ==
    IF s /= <<>> /\ IsWhitespace(Head(s)) THEN TrimStart(Tail(s)) ELSE s

RECURSIVE TrimEnd(_)
TrimEnd(s) ==
    IF s /= <<>> /\ IsWhitespace(s[Len(s)])
    THEN TrimEnd(SubSeq(s, 1, Len(s) - 1)) ELSE s

\* str::trim
Trim(s) == TrimEnd(TrimStart(s))

(***************************************************************************)
(* Vec<isize>::sort_unstable, first, last; isize::clamp.                    *)
(***************************************************************************)
RECURSIVE Insert(_, _)
Insert(x, sorted) ==
    IF sorted = <<>> THEN <<x>>
    ELSE IF x <= Head(sorted) THEN <<x>> \o sorted
    ELSE <<Head(sorted)>> \o Insert(x, Tail(sorted))

RECURSIVE SortFrom(_, _)
SortFrom(s, acc) ==
    IF s = <<>> THEN acc ELSE SortFrom(Tail(s), Insert(Head(s), acc))

\* a sort that leaves the table in file order
SortUnstableNoop(s) == s

\* freqs.sort_unstable(): the ascending permutation of s
SortUnstable(s) == SortFrom(s, <<>>)

First(s) == IF s = <<>> THEN None ELSE Some(s[1])
Last(s) == IF s = <<>> THEN None ELSE Some(s[Len(s)])

\* a clamp that forgets the upper bound
ClampLowerOnly(freq, min_freq, max_freq) ==
    IF freq < min_freq THEN min_freq ELSE freq

\* a clamp that forgets the lower bound
ClampUpperOnly(freq, min_freq, max_freq) ==
    IF freq > max_freq THEN max_freq ELSE freq

\* freq.clamp(min_freq, max_freq)
Clamp(freq, min_freq, max_freq) ==
    IF freq < min_freq THEN min_freq
    ELSE IF freq > max_freq THEN max_freq
    ELSE freq

(***************************************************************************)
(* Info::new                                                               *)
(***************************************************************************)
RECURSIVE ParseAll(_, _)
\* tokens.map(parse).collect::<Result<Vec<_>>>(): the parsed values, or None
\* at the first token that does not parse
ParseAll(tokens, acc) ==
    IF tokens = <<>> THEN Some(acc)
    ELSE LET v == ParseIsize(Head(tokens))
         IN IF IsSome(v) THEN ParseAll(Tail(tokens), Append(acc, Unwrap(v)))
            ELSE None

\* file_name.get(6..): the suffix from byte 6, None when the name is shorter
PolicyStr(file_name) ==
    IF Len(file_name) < 6 THEN None
    ELSE Some(SubSeq(file_name, 7, Len(file_name)))

NewErr(msg) ==
    [status |-> "Err", msg |-> msg, policy |-> 0, freqs |-> <<>>,
     affected_cpus |-> <<>>, cur_fas_freq |-> 0]

NewPanic(msg) ==
    [status |-> "Panic", msg |-> msg, policy |-> 0, freqs |-> <<>>,
     affected_cpus |-> <<>>, cur_fas_freq |-> 0]

\* the affected_cpus closure: core.parse::<usize>().context(..).unwrap()
CoresParsed(tokens) == [i \in 1..Len(tokens) |-> ParseUsize(tokens[i])]

\* Info::new(path) on the directory d, in the order the code evaluates it
InfoNew(d) ==
    IF ~IsSome(d.file_name) THEN NewErr("Invalid file name")
    ELSE LET policy_str == PolicyStr(Unwrap(d.file_name)) IN
    IF ~IsSome(policy_str) THEN NewErr("Invalid policy format")
    ELSE LET policy == ParseI32(Unwrap(policy_str)) IN
    IF ~IsSome(policy) THEN NewErr("Failed to parse policy")
    ELSE IF ~IsSome(d.scaling_available_frequencies)
    THEN NewErr("Failed to read frequencies")
    ELSE LET parsed == ParseAll(Unwrap(d.scaling_available_frequencies), <<>>) IN
    IF ~IsSome(parsed) THEN NewErr("Failed to parse frequency")
    ELSE LET freqs == SortUnstable(Unwrap(parsed)) IN
    IF ~IsSome(d.affected_cpus) THEN NewErr("Failed to read affected_cpus")
    ELSE LET cores == CoresParsed(Unwrap(d.affected_cpus)) IN
    IF \E i \in 1..Len(cores) : ~IsSome(cores[i])
    THEN NewPanic("Failed to parse core")
    ELSE IF ~IsSome(Last(freqs)) THEN NewErr("No frequencies available")
    ELSE [status |-> "Ok", msg |-> "", policy |-> Unwrap(policy),
          freqs |-> freqs,
          affected_cpus |-> [i \in 1..Len(cores) |-> Unwrap(cores[i])],
          cur_fas_freq |-> Unwrap(Last(freqs))]

(***************************************************************************)
(* Inputs: the policy directories, the busy-core sets, the requests, the   *)
(* contents scaling_cur_freq can have when it is read.                      *)
(***************************************************************************)
T100 == <<"1", "0", "0">>
T200 == <<"2", "0", "0">>
T300 == <<"3", "0", "0">>
T400 == <<"4", "0", "0">>
TBad == <<"4", "x">>

FileNames ==
    { Some(<<"p", "o", "l", "i", "c", "y", "4">>),
      Some(<<"p", "o", "l", "i", "c", "y", "0">>),
      Some(<<"p", "o", "l", "i", "c", "y">>),
      Some(<<"p", "o", "l", "i", "c", "y", "x">>),
      Some(<<"p", "o", "l", "i", "c", "y", "9", "9", "9", "9", "9", "9", "9",
             "9", "9", "9">>),
      Some(<<"c", "p", "u", "4">>),
      None }

FreqFiles ==
    { Some(<<T300, T100, T400, T200>>),
      Some(<<T300>>),
      Some(<<T200, TBad>>),
      Some(<<>>),
      None }

CpuFiles ==
    { Some(<<<<"0">>, <<"1">>>>),
      Some(<<<<"1">>, <<"1", "0", "2", "4">>>>),
      Some(<<>>),
      Some(<<<<"0">>, <<"-", "1">>>>),
      Some(<<<<"c", "p", "u">>>>),
      None }

Dirs ==
    [file_name : FileNames, scaling_available_frequencies : FreqFiles,
     affected_cpus : CpuFiles]

\* the busy-core sets the usage oracle can hand to write_freq
Cores == {0, 1}
CpuSets == SUBSET Cores

\* the frequencies the scheduler can request
Requests == {250, 300, 350, 500}

\* scaling_cur_freq as read_freq can find it
CurFreqFiles ==
    { Some(<<"1", "5", "0", "\n">>), Some(<<"3", "0", "0", "\n">>),
      Some(<<"\n">>), None }

\* the keys of IGNORE_MAP: the policies the map was built for
IgnoreKeys == {4}

MAX_FREQ_FILE == "scaling_max_freq"
MIN_FREQ_FILE == "scaling_min_freq"

(***************************************************************************)
(* State.                                                                  *)
(***************************************************************************)
VARIABLES
    dir,              \* the policy directory: file name and the two list files
    scaling_min_freq, \* content of the floor control file
    scaling_max_freq, \* content of the ceiling control file
    IGNORE_MAP,       \* None until initialised, then Some([policy -> flag])
    now,              \* Instant::now(), in seconds
    pc,               \* "start", "idle", "writing", "done", "failed", "panicked"
    policy, affected_cpus, cur_fas_freq, freqs, verify_freq, verify_timer,
    frame             \* the call in progress: arguments, locals, what it did

vars ==
    <<dir, scaling_min_freq, scaling_max_freq, IGNORE_MAP, now, pc, policy,
      affected_cpus, cur_fas_freq, freqs, verify_freq, verify_timer, frame>>

info == <<policy, affected_cpus, cur_fas_freq, freqs, verify_freq, verify_timer>>
files == <<scaling_min_freq, scaling_max_freq>>

NoFrame ==
    [op |-> "", freq |-> 0, top_used_cores |-> {}, adjusted_freq |-> 0,
     branch |-> "", verified |-> FALSE, check |-> None, pending |-> <<>>,
     writes |-> <<>>, result |-> "", msg |-> ""]

(***************************************************************************)
(* Info::read_freq, Info::verify_freq, Info::ignore_write,                  *)
(* Info::critical_policy.                                                   *)
(***************************************************************************)
\* read_freq on the content cur of scaling_cur_freq: Some(value), or None
\* where one of the two unwraps panics
ReadFreq(cur) ==
    IF ~IsSome(cur) THEN None ELSE ParseIsize(Trim(Unwrap(cur)))

RECURSIVE TakeWhileLe(_, _)
\* fs.iter().take_while(|f| f <= v): the longest prefix with every entry <= v
TakeWhileLe(fs, v) ==
    IF fs = <<>> \/ Head(fs) > v THEN <<>>
    ELSE <<Head(fs)>> \o TakeWhileLe(Tail(fs), v)

RECURSIVE FindGe(_, _)
\* fs.iter().find(|f| f >= v): the first entry >= v
FindGe(fs, v) ==
    IF fs = <<>> THEN None
    ELSE IF Head(fs) >= v THEN Some(Head(fs))
    ELSE FindGe(Tail(fs), v)

UnwrapOr(o, v) == IF IsSome(o) THEN Unwrap(o) ELSE v

\* a variant whose lower bound has to be under the baseline
MinAcceptableStrict(fs, v) == UnwrapOr(Last(TakeWhileLe(fs, v - 1)), v)
MinAcceptable(fs, v) == UnwrapOr(Last(TakeWhileLe(fs, v)), v)
\* a variant whose upper bound has to exceed the baseline
MaxAcceptableStrict(fs, v) == UnwrapOr(FindGe(fs, v + 1), v)
MaxAcceptable(fs, v) == UnwrapOr(FindGe(fs, v), v)

\* a variant whose window has to be exceeded
WindowElapsedStrict(t, timer) == t - timer > VerifyWindow

\* the window test of verify_freq
WindowElapsed(t, timer) == t - timer >= VerifyWindow

\* a verify_freq that returns after its warning, before storing the baseline
VerifyFreqReturnsOnWarn(write_freq, t, timer, baseline, fs, cur) ==
    LET evaluate == WindowElapsed(t, timer)
        compare == evaluate /\ IsSome(baseline)
        current_freq == ReadFreq(cur)
        lo == MinAcceptable(fs, Unwrap(baseline))
        hi == MaxAcceptable(fs, Unwrap(baseline))
        warn == /\ compare /\ IsSome(current_freq)
                /\ ~(lo <= Unwrap(current_freq) /\ Unwrap(current_freq) <= hi)
    IN [panic |-> compare /\ ~IsSome(current_freq),
        verify_timer |-> IF evaluate THEN t ELSE timer,
        verify_freq |-> IF warn \/ (compare /\ ~IsSome(current_freq))
                        THEN baseline ELSE Some(write_freq),
        check |-> IF compare /\ IsSome(current_freq)
                  THEN Some([baseline |-> Unwrap(baseline), lo |-> lo, hi |-> hi,
                             actual |-> Unwrap(current_freq), warn |-> warn])
                  ELSE None]

\* a verify_freq that stores the baseline only when it closes a window
VerifyFreqStoresOnEvaluation(write_freq, t, timer, baseline, fs, cur) ==
    LET evaluate == WindowElapsed(t, timer)
        compare == evaluate /\ IsSome(baseline)
        current_freq == ReadFreq(cur)
        lo == MinAcceptable(fs, Unwrap(baseline))
        hi == MaxAcceptable(fs, Unwrap(baseline))
    IN [panic |-> compare /\ ~IsSome(current_freq),
        verify_timer |-> IF evaluate THEN t ELSE timer,
        verify_freq |-> IF ~evaluate \/ (compare /\ ~IsSome(current_freq))
                        THEN baseline ELSE Some(write_freq),
        check |-> IF compare /\ IsSome(current_freq)
                  THEN Some([baseline |-> Unwrap(baseline), lo |-> lo, hi |-> hi,
                             actual |-> Unwrap(current_freq),
                             warn |-> ~(lo <= Unwrap(current_freq)
                                        /\ Unwrap(current_freq) <= hi)])
                  ELSE None]

\* verify_freq(write_freq) at time t with scaling_cur_freq holding cur:
\* whether it panicked, the fields it leaves, and the comparison it made
VerifyFreq(write_freq, t, timer, baseline, fs, cur) ==
    LET evaluate == WindowElapsed(t, timer)
        compare == evaluate /\ IsSome(baseline)
        current_freq == ReadFreq(cur)
        lo == MinAcceptable(fs, Unwrap(baseline))
        hi == MaxAcceptable(fs, Unwrap(baseline))
    IN [panic |-> compare /\ ~IsSome(current_freq),
        verify_timer |-> IF evaluate THEN t ELSE timer,
        verify_freq |-> IF compare /\ ~IsSome(current_freq) THEN baseline
                        ELSE Some(write_freq),
        check |-> IF compare /\ IsSome(current_freq)
                  THEN Some([baseline |-> Unwrap(baseline), lo |-> lo, hi |-> hi,
                             actual |-> Unwrap(current_freq),
                             warn |-> ~(lo <= Unwrap(current_freq)
                                        /\ Unwrap(current_freq) <= hi)])
                  ELSE None]

\* an ignore_write that finds the flag and does not look at it
IgnoreWriteFlagUnread(map, p) ==
    IF ~IsSome(map) THEN None
    ELSE IF p \notin DOMAIN Unwrap(map) THEN None
    ELSE Some(FALSE)

\* ignore_write: Some(flag), or None for either of its two errors
IgnoreWrite(map, p) ==
    IF ~IsSome(map) THEN None
    ELSE IF p \notin DOMAIN Unwrap(map) THEN None
    ELSE Some(Unwrap(map)[p])

RECURSIVE CriticalPolicy(_, _)
\* affected_cpus.iter().any(|core| top_used_cores.is_set(*core).unwrap()):
\* "true", "false", or "panic" when is_set fails (core >= CPU_SETSIZE)
\* before a busy core is found
CriticalPolicy(cpus, top_used_cores) ==
    IF cpus = <<>> THEN "false"
    ELSE IF Head(cpus) >= CPU_SETSIZE THEN "panic"
    ELSE IF Head(cpus) \in top_used_cores THEN "true"
    ELSE CriticalPolicy(Tail(cpus), top_used_cores)

\* the critical branch writing the floor before the ceiling
CriticalWritesFloorFirst(adjusted_freq) ==
    <<[file |-> MIN_FREQ_FILE, val |-> to_string(adjusted_freq)],
      [file |-> MAX_FREQ_FILE, val |-> to_string(adjusted_freq)]>>

\* the writes of the critical branch, in order: ceiling, then floor
CriticalWrites(adjusted_freq) ==
    <<[file |-> MAX_FREQ_FILE, val |-> to_string(adjusted_freq)],
      [file |-> MIN_FREQ_FILE, val |-> to_string(adjusted_freq)]>>

\* the non-critical branch pinning the floor to the target as well
NonCriticalWritesPinned(min_freq, adjusted_freq) ==
    <<[file |-> MIN_FREQ_FILE, val |-> to_string(adjusted_freq)],
      [file |-> MAX_FREQ_FILE, val |-> to_string(adjusted_freq)]>>

\* the writes of the non-critical branch, in order: floor, then ceiling
NonCriticalWrites(min_freq, adjusted_freq) ==
    <<[file |-> MIN_FREQ_FILE, val |-> to_string(min_freq)],
      [file |-> MAX_FREQ_FILE, val |-> to_string(adjusted_freq)]>>

\* a reset that hands each file the other one's limit
ResetWritesSwapped(min_freq, max_freq) ==
    <<[file |-> MAX_FREQ_FILE, val |-> to_string(min_freq)],
      [file |-> MIN_FREQ_FILE, val |-> to_string(max_freq)]>>

\* the writes of reset, in order: ceiling, then floor
ResetWrites(min_freq, max_freq) ==
    <<[file |-> MAX_FREQ_FILE, val |-> to_string(max_freq)],
      [file |-> MIN_FREQ_FILE, val |-> to_string(min_freq)]>>

(***************************************************************************)
(* Initial state: a policy directory, the control files at the limits the  *)
(* kernel boots with, IGNORE_MAP not yet initialised, no Info.              *)
(***************************************************************************)
BootLimits(d) ==
    LET parsed == IF IsSome(d.scaling_available_frequencies)
                  THEN ParseAll(Unwrap(d.scaling_available_frequencies), <<>>)
                  ELSE None
        table == IF IsSome(parsed) THEN SortUnstable(Unwrap(parsed)) ELSE <<>>
    IN IF table = <<>> THEN <<to_string(0), to_string(0)>>
       ELSE <<to_string(table[1]), to_string(table[Len(table)])>>

Init ==
    /\ dir \in Dirs
    /\ scaling_min_freq = BootLimits(dir)[1]
    /\ scaling_max_freq = BootLimits(dir)[2]
    /\ IGNORE_MAP = None
    /\ now = 0
    /\ pc = "start"
    /\ policy = 0
    /\ affected_cpus = <<>>
    /\ cur_fas_freq = 0
    /\ freqs = <<>>
    /\ verify_freq = None
    /\ verify_timer = 0
    /\ frame = NoFrame

(***************************************************************************)
(* Info::new(path)                                                         *)
(***************************************************************************)
New ==
    /\ pc = "start"
    /\ LET r == InfoNew(dir) IN
       /\ pc' = CASE r.status = "Ok" -> "idle"
                  [] r.status = "Err" -> "failed"
                  [] OTHER -> "panicked"
       /\ policy' = r.policy
       /\ affected_cpus' = r.affected_cpus
       /\ cur_fas_freq' = r.cur_fas_freq
       /\ freqs' = r.freqs
       /\ verify_freq' = None
       /\ verify_timer' = now
       /\ frame' = [NoFrame EXCEPT !.op = "new", !.result = r.status,
                                   !.msg = r.msg]
    /\ UNCHANGED <<dir, files, IGNORE_MAP, now>>

(***************************************************************************)
(* The environment: the clock, and the owner of IGNORE_MAP.                 *)
(***************************************************************************)
Alive == pc \in {"idle", "writing", "done"}

\* a second passes; time is counted from the construction of the Info
Tick ==
    /\ Alive
    /\ now < MaxClock
    /\ now' = now + 1
    /\ UNCHANGED <<dir, files, IGNORE_MAP, pc, info, frame>>

\* IGNORE_MAP is set once, every flag clear
InitIgnoreMap ==
    /\ pc \in {"start", "idle", "writing", "done"}
    /\ IGNORE_MAP = None
    /\ IGNORE_MAP' = Some([k \in IgnoreKeys |-> FALSE])
    /\ UNCHANGED <<dir, files, now, pc, info, frame>>

\* the external policy thread stores a flag (release store)
StoreIgnore(k, b) ==
    /\ Alive
    /\ IsSome(IGNORE_MAP)
    /\ Unwrap(IGNORE_MAP)[k] /= b
    /\ IGNORE_MAP' = Some([Unwrap(IGNORE_MAP) EXCEPT ![k] = b])
    /\ UNCHANGED <<dir, files, now, pc, info, frame>>

(***************************************************************************)
(* Info::write_freq(top_used_cores, freq, file_handler), up to its first    *)
(* write: the clamp, the bypass load, the criticality test, verify_freq.    *)
(***************************************************************************)
\* whether write_freq with this busy-core set reaches read_freq
ReadsCurFreq(top_used_cores) ==
    /\ IsSome(First(freqs))
    /\ IgnoreWrite(IGNORE_MAP, policy) = Some(FALSE)
    /\ CriticalPolicy(affected_cpus, top_used_cores) = "true"
    /\ WindowElapsed(now, verify_timer)
    /\ IsSome(verify_freq)

WriteFreqCall(freq, top_used_cores, cur) ==
    LET call == [NoFrame EXCEPT !.op = "write_freq", !.freq = freq,
                                !.top_used_cores = top_used_cores]
        same == [pc |-> "done", cur_fas_freq |-> cur_fas_freq,
                 verify_freq |-> verify_freq, verify_timer |-> verify_timer,
                 frame |-> call]
    IN
    IF ~IsSome(First(freqs))
    THEN [same EXCEPT !.frame.result = "Err",
                      !.frame.msg = "No frequencies available"]
    ELSE
    LET min_freq == Unwrap(First(freqs))
        max_freq == Unwrap(Last(freqs))
        adjusted_freq == Clamp(freq, min_freq, max_freq)
        ignore == IgnoreWrite(IGNORE_MAP, policy)
        critical == CriticalPolicy(affected_cpus, top_used_cores)
        v == VerifyFreq(adjusted_freq, now, verify_timer, verify_freq, freqs, cur)
        set == [same EXCEPT !.cur_fas_freq = adjusted_freq,
                            !.frame.adjusted_freq = adjusted_freq]
    IN
    IF ~IsSome(ignore)
    THEN [set EXCEPT !.frame.branch = "ignore_err", !.frame.result = "Err",
                     !.frame.msg = "ignore flag"]
    ELSE IF Unwrap(ignore)
    THEN [set EXCEPT !.frame.branch = "bypassed", !.frame.result = "Ok"]
    ELSE IF critical = "panic"
    THEN [set EXCEPT !.pc = "panicked", !.frame.msg = "is_set"]
    ELSE IF critical = "true"
    THEN IF v.panic
         THEN [set EXCEPT !.pc = "panicked", !.verify_timer = v.verify_timer,
                          !.frame.branch = "critical",
                          !.frame.verified = TRUE, !.frame.msg = "read_freq"]
         ELSE [set EXCEPT !.pc = "writing", !.verify_timer = v.verify_timer,
                          !.verify_freq = v.verify_freq,
                          !.frame.branch = "critical",
                          !.frame.verified = TRUE, !.frame.check = v.check,
                          !.frame.pending = CriticalWrites(adjusted_freq)]
    ELSE [set EXCEPT !.pc = "writing", !.frame.branch = "noncritical",
                     !.frame.pending = NonCriticalWrites(min_freq, adjusted_freq)]

\* cur is what scaling_cur_freq holds if this call reads it (it is drawn only
\* for a call that reads it)
WriteFreq(freq, top_used_cores, cur) ==
    /\ pc = "idle"
    /\ \/ ReadsCurFreq(top_used_cores)
       \/ cur = None
    /\ LET r == WriteFreqCall(freq, top_used_cores, cur) IN
       /\ pc' = r.pc
       /\ cur_fas_freq' = r.cur_fas_freq
       /\ verify_freq' = r.verify_freq
       /\ verify_timer' = r.verify_timer
       /\ frame' = r.frame
    /\ UNCHANGED <<dir, files, IGNORE_MAP, now, policy, affected_cpus, freqs>>

(***************************************************************************)
(* Info::reset(file_handler), up to its first write.                        *)
(***************************************************************************)
ResetCall ==
    LET call == [NoFrame EXCEPT !.op = "reset"] IN
    IF ~IsSome(First(freqs))
    THEN [pc |-> "done", verify_freq |-> verify_freq,
          frame |-> [call EXCEPT !.result = "Err",
                                 !.msg = "No frequencies available"]]
    ELSE [pc |-> "writing", verify_freq |-> None,
          frame |-> [call EXCEPT !.pending =
                         ResetWrites(Unwrap(First(freqs)), Unwrap(Last(freqs)))]]

Reset ==
    /\ pc = "idle"
    /\ pc' = ResetCall.pc
    /\ verify_freq' = ResetCall.verify_freq
    /\ frame' = ResetCall.frame
    /\ UNCHANGED <<dir, files, IGNORE_MAP, now, policy, affected_cpus,
                   cur_fas_freq, freqs, verify_timer>>

(***************************************************************************)
(* One file_handler.write_with_workround(path, value)? of write_freq or    *)
(* reset: the write executor writes the value or fails and leaves the file  *)
(* as it was; a failure returns from the call, dropping the writes left.    *)
(***************************************************************************)
WriteWithWorkround(content, value, ok) == IF ok THEN value ELSE content

\* a variant that goes on to the writes left after a failed one
AfterWriteGoesOn(f, ok) ==
    LET w == Head(f.pending)
        done == [f EXCEPT !.writes = Append(@, [file |-> w.file, val |-> w.val,
                                                ok |-> ok])]
    IN IF Tail(f.pending) = <<>>
       THEN [done EXCEPT !.pending = <<>>,
                         !.result = IF ok /\ f.msg = "" THEN "Ok" ELSE "Err",
                         !.msg = IF ok THEN f.msg ELSE "write"]
       ELSE [done EXCEPT !.pending = Tail(@),
                         !.msg = IF ok THEN f.msg ELSE "write"]

\* the call's frame after its next write went out with outcome ok
AfterWrite(f, ok) ==
    LET w == Head(f.pending)
        done == [f EXCEPT !.writes = Append(@, [file |-> w.file, val |-> w.val,
                                                ok |-> ok])]
    IN IF ~ok THEN [done EXCEPT !.pending = <<>>, !.result = "Err",
                                !.msg = "write"]
       ELSE IF Tail(f.pending) = <<>>
            THEN [done EXCEPT !.pending = <<>>, !.result = "Ok"]
            ELSE [done EXCEPT !.pending = Tail(@)]

WriteStep(ok) ==
    /\ pc = "writing"
    /\ LET w == Head(frame.pending) IN
       /\ scaling_max_freq' =
              IF w.file = MAX_FREQ_FILE
              THEN WriteWithWorkround(scaling_max_freq, w.val, ok)
              ELSE scaling_max_freq
       /\ scaling_min_freq' =
              IF w.file = MIN_FREQ_FILE
              THEN WriteWithWorkround(scaling_min_freq, w.val, ok)
              ELSE scaling_min_freq
    /\ frame' = AfterWrite(frame, ok)
    /\ pc' = IF frame'.result = "" THEN "writing" ELSE "done"
    /\ UNCHANGED <<dir, IGNORE_MAP, now, info>>

\* the call returns to the control loop
Return ==
    /\ pc = "done"
    /\ pc' = "idle"
    /\ frame' = NoFrame
    /\ UNCHANGED <<dir, files, IGNORE_MAP, now, info>>

Next ==
    \/ New
    \/ Tick
    \/ InitIgnoreMap
    \/ \E k \in IgnoreKeys, b \in BOOLEAN : StoreIgnore(k, b)
    \/ \E freq \in Requests, top \in CpuSets, cur \in CurFreqFiles :
           WriteFreq(freq, top, cur)
    \/ Reset
    \/ \E ok \in BOOLEAN : WriteStep(ok)
    \/ Return

Spec == Init /\ [][Next]_vars

(***************************************************************************)
(* Vocabulary of the properties.                                           *)
(***************************************************************************)
\* an Info exists: new returned Ok (a panic inside a later call included)
Constructed ==
    \/ pc \in {"idle", "writing", "done"}
    \/ pc = "panicked" /\ frame.op /= "new"

Entries(fs) == {fs[i] : i \in DOMAIN fs}
TableMin == CHOOSE m \in Entries(freqs) : \A x \in Entries(freqs) : m <= x
TableMax == CHOOSE m \in Entries(freqs) : \A x \in Entries(freqs) : x <= m

\* v is req clamped into [lo, hi]
IsClampOf(v, req, lo, hi) ==
    /\ lo <= v /\ v <= hi
    /\ (lo <= req /\ req <= hi) => v = req
    /\ req < lo => v = lo
    /\ req > hi => v = hi

\* the bypass flag of this domain is set / is clear in IGNORE_MAP
FlagSet ==
    /\ IGNORE_MAP /= None
    /\ policy \in DOMAIN IGNORE_MAP[1]
    /\ IGNORE_MAP[1][policy]
FlagClear ==
    /\ IGNORE_MAP /= None
    /\ policy \in DOMAIN IGNORE_MAP[1]
    /\ ~IGNORE_MAP[1][policy]

\* some affected core is in the busy-core set
Busy(top_used_cores) ==
    \E i \in DOMAIN affected_cpus : affected_cpus[i] \in top_used_cores
\* every affected core is an index a CpuSet can be asked about
CoresInRange == \A i \in DOMAIN affected_cpus : affected_cpus[i] < CPU_SETSIZE

\* the number a control file holds
Held(content) == ParseIsize(content)

\* The call in progress has issued its writes in the order of expected (a
\* sequence of <<file, value>>), each with the expected value, a write only
\* after the one before it succeeded; it is still writing while none has
\* failed and some are left, and it returned Ok exactly when all succeeded.
IssuedInOrder(expected) ==
    LET issued == frame.writes
        n == Len(issued)
    IN /\ n <= Len(expected)
       /\ \A i \in 1..n : /\ issued[i].file = expected[i][1]
                          /\ Held(issued[i].val) = Some(expected[i][2])
       /\ \A i \in 1..(n - 1) : issued[i].ok
       /\ pc = "writing" => /\ n < Len(expected)
                            /\ n >= 1 => issued[n].ok
                            /\ frame.result = ""
       /\ pc = "done" => /\ n >= 1
                         /\ n < Len(expected) => ~issued[n].ok
                         /\ frame.result = IF issued[n].ok THEN "Ok" ELSE "Err"

MainTable == <<100, 200, 300, 400>>

(***************************************************************************)
(* Properties.                                                             *)
(***************************************************************************)

\* C1: once write_freq has been called with a request, cur_fas_freq is that
\* request clamped into [min(freqs), max(freqs)], in every state of the call
\* and after it, whichever branch it took (bypassed, ignore error, critical,
\* non-critical, panicked) and whatever its writes did.
C1_TargetIsClampedRequest ==
    (Constructed /\ frame.op = "write_freq")
        => IsClampOf(cur_fas_freq, frame.freq, TableMin, TableMax)

\* a call whose request lay above the table and whose second write failed
C1_Witness ==
    /\ pc = "done" /\ frame.op = "write_freq"
    /\ frame.freq > TableMax
    /\ cur_fas_freq = TableMax
    /\ Len(frame.writes) = 2 /\ frame.result = "Err"

\* C2: a write_freq call made while the domain's flag in IGNORE_MAP is set
\* returns Ok in that step, issues no write, leaves both control files as
\* they were, and still sets cur_fas_freq to the clamped request.
C2_BypassedCallWritesNothing ==
    [][(pc = "idle" /\ FlagSet /\ frame'.op = "write_freq")
          => /\ pc' = "done"
             /\ frame'.result = "Ok"
             /\ frame'.writes = <<>>
             /\ UNCHANGED files
             /\ IsClampOf(cur_fas_freq', frame'.freq, TableMin, TableMax)]_vars

\* request 250 on [100,200,300,400] with the flag set: no write, target 250
C2_Witness ==
    /\ pc = "done" /\ frame.op = "write_freq" /\ frame.branch = "bypassed"
    /\ freqs = MainTable /\ frame.freq = 250
    /\ frame.writes = <<>> /\ cur_fas_freq = 250

\* what a call in the critical branch has done, at each of its states
C3_CriticalCall ==
    (frame.op = "write_freq" /\ frame.branch = "critical")
        => /\ Busy(frame.top_used_cores)
           /\ frame.verified
           /\ cur_fas_freq = frame.adjusted_freq
           /\ IsClampOf(frame.adjusted_freq, frame.freq, TableMin, TableMax)
           /\ pc \in {"writing", "done"} =>
                  IssuedInOrder(<<<<MAX_FREQ_FILE, frame.adjusted_freq>>,
                                  <<MIN_FREQ_FILE, frame.adjusted_freq>>>>)

\* the step that starts a call on a critical, non-bypassed domain
C3_CriticalEntered ==
    (pc = "idle" /\ FlagClear /\ CoresInRange /\ frame'.op = "write_freq"
        /\ Busy(frame'.top_used_cores))
        => frame'.branch = "critical"

\* C3: a write_freq call that starts with the flag clear and an affected core
\* in the busy-core set takes the critical branch: it calls verify_freq
\* before any write, then issues the ceiling write and then the floor write,
\* both with the clamped request.  (The branch is entered only so; the floor
\* write follows whenever the ceiling write succeeded.)
C3_CriticalWritesCeilingThenFloor ==
    [](C3_CriticalCall) /\ [][C3_CriticalEntered]_vars

\* request 500 on [100,200,300,400], critical: ceiling = 400, then floor = 400
C3_Witness ==
    /\ pc = "done" /\ frame.op = "write_freq" /\ frame.branch = "critical"
    /\ freqs = MainTable /\ frame.freq = 500 /\ frame.result = "Ok"
    /\ frame.writes = <<[file |-> MAX_FREQ_FILE, val |-> <<"4", "0", "0">>,
                         ok |-> TRUE],
                        [file |-> MIN_FREQ_FILE, val |-> <<"4", "0", "0">>,
                         ok |-> TRUE]>>
    /\ scaling_max_freq = <<"4", "0", "0">>
    /\ scaling_min_freq = <<"4", "0", "0">>

\* what a call in the non-critical branch has done, at each of its states
C4_NonCriticalCall ==
    (frame.op = "write_freq" /\ frame.branch = "noncritical")
        => /\ ~Busy(frame.top_used_cores)
           /\ ~frame.verified
           /\ frame.check = None
           /\ cur_fas_freq = frame.adjusted_freq
           /\ IsClampOf(frame.adjusted_freq, frame.freq, TableMin, TableMax)
           /\ IssuedInOrder(<<<<MIN_FREQ_FILE, TableMin>>,
                              <<MAX_FREQ_FILE, frame.adjusted_freq>>>>)

\* the step that starts a call on a non-critical, non-bypassed domain
C4_NonCriticalEntered ==
    (pc = "idle" /\ FlagClear /\ CoresInRange /\ frame'.op = "write_freq"
        /\ ~Busy(frame'.top_used_cores))
        => frame'.branch = "noncritical"

\* no step into or inside the non-critical branch touches the verification
C4_VerificationUntouched ==
    (frame'.op = "write_freq" /\ frame'.branch = "noncritical")
        => UNCHANGED <<verify_freq, verify_timer>>

\* C4: a write_freq call that starts with the flag clear and no affected core
\* in the busy-core set (an empty affected_cpus included) takes the
\* non-critical branch: it issues the floor write with min(freqs) and then
\* the ceiling write with the clamped request, never calls verify_freq, and
\* no step of the call changes verify_freq or verify_timer.
C4_NonCriticalWritesFloorMinThenCeiling ==
    /\ [](C4_NonCriticalCall)
    /\ [][C4_NonCriticalEntered /\ C4_VerificationUntouched]_vars

\* request 350 on [100,200,300,400], not critical, with a baseline recorded
\* and the window elapsed: floor = 100, ceiling = 350, baseline kept
C4_Witness ==
    /\ pc = "done" /\ frame.op = "write_freq" /\ frame.branch = "noncritical"
    /\ freqs = MainTable /\ frame.freq = 350 /\ frame.result = "Ok"
    /\ scaling_min_freq = <<"1", "0", "0">>
    /\ scaling_max_freq = <<"3", "5", "0">>
    /\ cur_fas_freq = 350
    /\ verify_freq = Some(400)
    /\ now - verify_timer >= VerifyWindow

\* C5: while an Info exists, cur_fas_freq lies in [min(freqs), max(freqs)],
\* and so does every value write_freq or reset has handed or is about to
\* hand to the write executor.
C5_TargetAndWritesInBounds ==
    Constructed =>
        /\ TableMin <= cur_fas_freq /\ cur_fas_freq <= TableMax
        /\ \A i \in DOMAIN frame.writes :
               /\ IsSome(Held(frame.writes[i].val))
               /\ TableMin <= Unwrap(Held(frame.writes[i].val))
               /\ Unwrap(Held(frame.writes[i].val)) <= TableMax
        /\ \A i \in DOMAIN frame.pending :
               /\ IsSome(Held(frame.pending[i].val))
               /\ TableMin <= Unwrap(Held(frame.pending[i].val))
               /\ Unwrap(Held(frame.pending[i].val)) <= TableMax

\* a request above the table was written as the table's maximum to both files
C5_Witness ==
    /\ pc = "done" /\ frame.op = "write_freq" /\ frame.branch = "critical"
    /\ frame.freq > TableMax /\ TableMin < TableMax
    /\ Len(frame.writes) = 2
    /\ Held(frame.writes[1].val) = Some(TableMax)
    /\ Held(frame.writes[2].val) = Some(TableMax)

\* C6: the floor control file never holds more than the ceiling control
\* file, in any state during or between write_freq and reset calls.
C6_RangeNeverInverted ==
    Constructed =>
        /\ IsSome(Held(scaling_min_freq)) /\ IsSome(Held(scaling_max_freq))
        /\ Unwrap(Held(scaling_min_freq)) <= Unwrap(Held(scaling_max_freq))

\* C7: whenever reset is called it clears verify_freq and issues the ceiling
\* write with max(freqs) and then the floor write with min(freqs), whatever
\* the bypass flag and the busy cores are.  (The floor write follows
\* whenever the ceiling write succeeded.)
C7_ResetRestoresFullRange ==
    frame.op = "reset"
        => /\ pc \in {"writing", "done"}
           /\ verify_freq = None
           /\ IssuedInOrder(<<<<MAX_FREQ_FILE, TableMax>>,
                              <<MIN_FREQ_FILE, TableMin>>>>)

\* a reset with the bypass flag set, after a baseline had been recorded and
\* both files pinned: ceiling = 400, floor = 100 on [100,200,300,400]
C7_Witness ==
    /\ pc = "done" /\ frame.op = "reset" /\ frame.result = "Ok" /\ FlagSet
    /\ freqs = MainTable
    /\ cur_fas_freq = 300
    /\ Len(frame.writes) = 2
    /\ scaling_max_freq = <<"4", "0", "0">>
    /\ scaling_min_freq = <<"1", "0", "0">>
    /\ verify_freq = None

\* the frequency table as the file gives it (parsed, in file order)
TableInFile ==
    IF IsSome(dir.scaling_available_frequencies)
    THEN ParseAll(Unwrap(dir.scaling_available_frequencies), <<>>)
    ELSE None

Count(fs, x) == Cardinality({i \in DOMAIN fs : fs[i] = x})

\* the table and the fields new leaves, in each state
C8_Table ==
    LET file == TableInFile IN
    /\ (frame.op = "new" /\ frame.result = "Ok")
           => (IsSome(file) /\ Unwrap(file) /= <<>> /\ Constructed)
    /\ Constructed
           => /\ freqs /= <<>>
              /\ \A i \in 1..(Len(freqs) - 1) : freqs[i] <= freqs[i + 1]
              /\ IsSome(file)
              /\ Len(freqs) = Len(Unwrap(file))
              /\ \A x \in Entries(freqs) :
                     Count(freqs, x) = Count(Unwrap(file), x)
    /\ (pc = "idle" /\ frame.op = "new")
           => /\ cur_fas_freq = TableMax
              /\ verify_freq = None

\* C8: new succeeds only on a file whose parsed table is non-empty; while the
\* Info exists freqs is non-empty, ascending and holds exactly the entries of
\* the file; right after new cur_fas_freq is max(freqs) and verify_freq is
\* None; and no later step (write_freq, reset) changes freqs.
C8_TableSortedNonEmptyStable ==
    [](C8_Table) /\ [][Constructed => freqs' = freqs]_vars

\* the file "300 100 400 200" gave [100,200,300,400], still so after a
\* critical write_freq and a reset
C8_Witness ==
    /\ pc = "done" /\ frame.op = "reset"
    /\ TableInFile = Some(<<300, 100, 400, 200>>)
    /\ freqs = MainTable
    /\ cur_fas_freq = 250

\* C9: every failure of new is returned as an error: new never panics.
C9_ConstructionFailureIsAnError ==
    frame.op = "new" => (pc /= "panicked" /\ frame.result \in {"Ok", "Err"})

\* C10: a write_freq call in which verify_freq warned goes on: it has stored
\* the clamped request as the new baseline, issues the ceiling and the floor
\* write with the clamped request, and returns Ok when both succeed.
C10_MismatchOnlyWarns ==
    (frame.op = "write_freq" /\ frame.check /= None /\ frame.check[1].warn)
        => /\ pc \in {"writing", "done"}
           /\ verify_freq = Some(frame.adjusted_freq)
           /\ IsClampOf(frame.adjusted_freq, frame.freq, TableMin, TableMax)
           /\ IssuedInOrder(<<<<MAX_FREQ_FILE, frame.adjusted_freq>>,
                              <<MIN_FREQ_FILE, frame.adjusted_freq>>>>)

\* hardware at 150 against the baseline 300: warned, the baseline moved on to
\* the new target 250, both writes went out and the call returned Ok
C10_Witness ==
    /\ pc = "done" /\ frame.op = "write_freq" /\ frame.result = "Ok"
    /\ frame.check /= None
    /\ frame.check[1].warn /\ frame.check[1].baseline = 300
    /\ frame.check[1].actual = 150
    /\ frame.adjusted_freq = 250 /\ verify_freq = Some(250)
    /\ Len(frame.writes) = 2

(***************************************************************************)
(* Failures in steady state.                                               *)
(***************************************************************************)
\* C11: a failure to read or parse scaling_cur_freq inside the verification of
\* a critical write_freq is reported to the caller and leaves the Info usable:
\* no call ends in a panic of read_freq.
C11_ReadFailureIsReported ==
    ~(pc = "panicked" /\ frame.op = "write_freq" /\ frame.msg = "read_freq")

\* C12: a write of write_freq or reset that fails ends the call at once with
\* an error: every write before it succeeded, no write follows it, and no
\* file is written twice by one call (no retry).
C12_FailedWriteEndsTheCall ==
    (frame.op \in {"write_freq", "reset"} /\ frame.writes /= <<>>) =>
        LET issued == frame.writes
            n == Len(issued)
        IN /\ n <= 2
           /\ \A i \in 1..(n - 1) : issued[i].ok
           /\ \A i, j \in 1..n : i < j => issued[i].file /= issued[j].file
           /\ ~issued[n].ok => /\ pc = "done"
                               /\ frame.result = "Err"
                               /\ frame.pending = <<>>
           /\ frame.result = "Ok" => \A i \in 1..n : issued[i].ok

\* the first write of a call failed and the call returned without its second
C12_Witness ==
    /\ pc = "done"
    /\ frame.op \in {"write_freq", "reset"}
    /\ Len(frame.writes) = 1
    /\ ~frame.writes[1].ok
    /\ frame.result = "Err"

(***************************************************************************)
(* The verification window.                                                *)
(***************************************************************************)
\* a step that enters write_freq
WriteFreqStep == pc = "idle" /\ frame'.op = "write_freq"

\* C13: a critical, non-bypassed write_freq evaluates the verification exactly
\* when VerifyWindow seconds have passed since verify_timer was last set (by
\* new or by the evaluation before); the evaluation sets verify_timer to the
\* present, a comparison (a read of scaling_cur_freq) happens only inside an
\* evaluation, and nothing else moves verify_timer, so that two evaluations
\* are at least VerifyWindow seconds apart.
C13_EvaluatedOncePerWindow ==
    [][/\ WriteFreqStep =>
            IF frame'.branch = "critical" /\ now - verify_timer >= VerifyWindow
            THEN verify_timer' = now
            ELSE /\ verify_timer' = verify_timer
                 /\ frame'.check = None
                 /\ ~(pc' = "panicked" /\ frame'.msg = "read_freq")
       /\ verify_timer' /= verify_timer =>
            /\ WriteFreqStep
            /\ verify_timer' - verify_timer >= VerifyWindow
      ]_vars

\* an evaluation that closes the second window, with a comparison
C13_Witness ==
    /\ frame.op = "write_freq"
    /\ frame.check /= None
    /\ verify_timer = VerifyWindow + VerifyWindow

(***************************************************************************)
(* The verification baseline.                                              *)
(***************************************************************************)
\* a step that enters reset
ResetStep == pc = "idle" /\ frame'.op = "reset"
\* a step that enters write_freq and gets through verify_freq
VerifiedStep ==
    WriteFreqStep /\ frame'.branch = "critical" /\ pc' /= "panicked"

\* C14, as stated: the baseline a comparison uses was stored when the window
\* before closed. A comparison uses the verify_freq it finds, so this says that
\* a write_freq inside a window (one that leaves verify_timer alone) leaves
\* verify_freq as the last closing of a window left it.
C14_BaselineStoredAtWindowClose ==
    [][(WriteFreqStep /\ verify_timer' = verify_timer) =>
           verify_freq' = verify_freq]_vars

\* C14: the baseline a comparison uses is the verify_freq found by the call,
\* which is the clamped target of the critical, non-bypassed write_freq
\* before it (inside the current window or not) and never that of the current
\* call: every write_freq that gets through verify_freq stores its clamped
\* target, no other write_freq touches verify_freq, and besides these only
\* reset does, which clears it.
C14_BaselineIsLastCriticalTarget ==
    [][/\ (WriteFreqStep /\ frame'.check /= None) =>
            /\ verify_freq /= None
            /\ frame'.check[1].baseline = Unwrap(verify_freq)
       /\ VerifiedStep => verify_freq' = Some(frame'.adjusted_freq)
       /\ (WriteFreqStep /\ ~VerifiedStep) => verify_freq' = verify_freq
       /\ verify_freq' /= verify_freq =>
            \/ VerifiedStep
            \/ ResetStep /\ verify_freq' = None
      ]_vars

\* a comparison whose baseline is not the target of the call making it
C14_Witness ==
    /\ frame.op = "write_freq"
    /\ frame.check /= None
    /\ frame.check[1].baseline /= frame.adjusted_freq
    /\ verify_freq = Some(frame.adjusted_freq)

\* C15, as stated: verify_freq is None until the first window closes. Time is
\* counted from new, and verify_timer leaves 0 only when a window closes.
C15_NoneUntilFirstWindowCloses ==
    (Constructed /\ verify_timer = 0) => verify_freq = None

\* C15: verify_freq is None from new until the first critical, non-bypassed
\* write_freq, which sets it to its clamped target whether the window has
\* elapsed or not; nothing but such a call makes it Some.
C15_NoneUntilFirstCriticalCall ==
    /\ pc = "start" => verify_freq = None
    /\ [][/\ pc = "start" => verify_freq' = None
          /\ (verify_freq = None /\ verify_freq' /= None) => VerifiedStep
          /\ (verify_freq = None /\ VerifiedStep) =>
               verify_freq' = Some(frame'.adjusted_freq)
         ]_vars

\* the baseline is set although no window has closed yet
C15_Witness ==
    /\ Constructed
    /\ verify_freq /= None
    /\ verify_timer = 0
    /\ now < VerifyWindow

(***************************************************************************)
(* The acceptance band of verify_freq as a function of the table and the    *)
(* baseline: verify_freq applied once, with the window elapsed, to every    *)
(* sorted non-empty table of up to MaxBandLen entries, every baseline       *)
(* between, on, below and above the entries, and every such reading.        *)
(***************************************************************************)
BandValues == {50 * k : k \in 1..9}
BandTables ==
    {t \in UNION {[1..n -> Entries(MainTable)] : n \in 1..MaxBandLen} :
        \A i \in 1..(Len(t) - 1) : t[i] <= t[i + 1]}

BandInit ==
    /\ dir = CHOOSE d \in Dirs : InfoNew(d).status = "Ok"
    /\ scaling_min_freq = BootLimits(dir)[1]
    /\ scaling_max_freq = BootLimits(dir)[2]
    /\ IGNORE_MAP = None
    /\ now = VerifyWindow
    /\ pc = "verify"
    /\ policy = 0
    /\ affected_cpus = <<>>
    /\ freqs \in BandTables
    /\ cur_fas_freq = Unwrap(Last(freqs))
    /\ verify_freq \in {Some(b) : b \in BandValues}
    /\ verify_timer = 0
    /\ frame = NoFrame

\* verify_freq(cur_fas_freq) with scaling_cur_freq holding actual
BandVerify(actual) ==
    /\ pc = "verify"
    /\ LET v == VerifyFreq(cur_fas_freq, now, verify_timer, verify_freq, freqs,
                           Some(to_string(actual) \o <<"\n">>))
       IN /\ pc' = IF v.panic THEN "panicked" ELSE "verified"
          /\ verify_timer' = v.verify_timer
          /\ verify_freq' = v.verify_freq
          /\ frame' = [NoFrame EXCEPT !.op = "verify_freq", !.check = v.check]
    /\ UNCHANGED <<dir, files, IGNORE_MAP, now, policy, affected_cpus,
                   cur_fas_freq, freqs>>

BandNext == \E actual \in BandValues : BandVerify(actual)

SpecBand == BandInit /\ [][BandNext]_vars

\* the largest of a non-empty set of numbers, and the smallest
Largest(S) == CHOOSE m \in S : \A x \in S : x <= m
Smallest(S) == CHOOSE m \in S : \A x \in S : m <= x

\* C16: the band verify_freq compares against has as lower bound the largest
\* table entry <= the baseline and as upper bound the smallest table entry >=
\* the baseline, each the baseline itself where there is no such entry, so
\* that lower <= baseline <= upper; it warns exactly when the frequency read
\* is outside [lower, upper].
C16_BandAroundBaseline ==
    pc = "verified" =>
        /\ frame.check /= None
        /\ LET c == frame.check[1]
               below == {x \in Entries(freqs) : x <= c.baseline}
               above == {x \in Entries(freqs) : x >= c.baseline}
           IN /\ c.lo = IF below = {} THEN c.baseline ELSE Largest(below)
              /\ c.hi = IF above = {} THEN c.baseline ELSE Smallest(above)
              /\ c.lo <= c.baseline /\ c.baseline <= c.hi
              /\ c.warn <=> (c.actual < c.lo \/ c.actual > c.hi)

\* a baseline below every entry: the lower bound falls back to the baseline,
\* and a reading under it is warned about
C16_Witness ==
    /\ pc = "verified"
    /\ frame.check /= None
    /\ frame.check[1].baseline < freqs[1]
    /\ frame.check[1].lo = frame.check[1].baseline
    /\ frame.check[1].hi = freqs[1]
    /\ frame.check[1].actual < frame.check[1].lo
    /\ frame.check[1].warn

(***************************************************************************)
(* The band of the baseline 300 on the table [100, 200, 300, 400].          *)
(***************************************************************************)
\* a write_freq on the table [100, 200, 300, 400] compared against 300
C17_Case ==
    /\ frame.op = "write_freq"
    /\ frame.check /= None
    /\ freqs = MainTable
    /\ frame.check[1].baseline = 300

\* C17, as stated: the band of the baseline 300 is [200, 300].
C17_BandIs200To300 ==
    C17_Case => frame.check[1].lo = 200 /\ frame.check[1].hi = 300

\* C17: on the table [100, 200, 300, 400] the band of the baseline 300 is
\* [300, 300], 300 being an entry; a reading of 150 is outside it and is
\* warned about, and the call goes on: it fails only if a write of it fails.
C17_BandIs300To300 ==
    C17_Case =>
        /\ frame.check[1].lo = 300 /\ frame.check[1].hi = 300
        /\ frame.check[1].actual = 150 =>
            /\ frame.check[1].warn
            /\ pc \in {"writing", "done"}
            /\ frame.result = "Err" =>
                   /\ frame.writes /= <<>>
                   /\ ~frame.writes[Len(frame.writes)].ok
            /\ (pc = "done" /\ \A i \in DOMAIN frame.writes : frame.writes[i].ok)
                   => frame.result = "Ok" /\ Len(frame.writes) = 2

\* 150 read against the band [300, 300]: warned, and the call returned Ok
C17_Witness ==
    /\ C17_Case
    /\ frame.check[1].lo = 300 /\ frame.check[1].hi = 300
    /\ frame.check[1].actual = 150
    /\ frame.check[1].warn
    /\ pc = "done" /\ frame.result = "Ok"

(***************************************************************************)
(* The bypass flag under concurrent stores.                                *)
(***************************************************************************)
\* C18: no write of write_freq goes out at a moment when the bypass flag of
\* the domain is set, however the stores of the flag interleave with the
\* steps of the call.
C18_NoWriteWhileFlagSet ==
    [][(pc = "writing" /\ frame.op = "write_freq"
            /\ frame'.writes /= frame.writes) => ~FlagSet]_vars

(***************************************************************************)
(* The range left by a call that returned Ok.                              *)
(***************************************************************************)
\* C19: when write_freq or reset has returned Ok the control files hold a
\* range with min(freqs) <= floor <= ceiling <= max(freqs): floor = ceiling =
\* cur_fas_freq after a critical write_freq, floor = min(freqs) and ceiling =
\* cur_fas_freq after a non-critical one, floor = min(freqs) and ceiling =
\* max(freqs) after reset, and a well-ordered range after a bypassed one.
C19_OkLeavesOrderedRange ==
    (pc = "done" /\ frame.op \in {"write_freq", "reset"} /\ frame.result = "Ok")
        => /\ IsSome(Held(scaling_min_freq)) /\ IsSome(Held(scaling_max_freq))
           /\ LET floor == Unwrap(Held(scaling_min_freq))
                  ceiling == Unwrap(Held(scaling_max_freq))
              IN /\ TableMin <= floor /\ floor <= ceiling /\ ceiling <= TableMax
                 /\ frame.branch = "critical" =>
                        floor = cur_fas_freq /\ ceiling = cur_fas_freq
                 /\ frame.branch = "noncritical" =>
                        floor = TableMin /\ ceiling = cur_fas_freq
                 /\ frame.op = "reset" => floor = TableMin /\ ceiling = TableMax

(***************************************************************************)
(* The baseline against what the control files hold.                       *)
(***************************************************************************)
\* C20: when verify_freq compares, the baseline is the value both control
\* files hold (the domain is still pinned to it): the state is the one the
\* comparison ran in as long as the call has issued no write.
C20_BaselineIsWhatTheFilesHold ==
    (frame.op = "write_freq" /\ frame.check /= None /\ frame.writes = <<>>)
        => /\ Held(scaling_min_freq) = Some(frame.check[1].baseline)
           /\ Held(scaling_max_freq) = Some(frame.check[1].baseline)

====
